---- MODULE Spec2Model ----
(***************************************************************************)
(* Model of geo_seo_blitz.py: the head-metadata merge                      *)
(* (append_product_metadata) and the publishing pipeline (configuration    *)
(* check, page rewrite, top-10 page upsert, sitemap upsert, Bing recrawl). *)
(*                                                                         *)
(* An HTML document is a flat sequence of tokens in document order: the    *)
(* tokens <head>, </head>, <body>, </body> delimit the head and the body,  *)
(* every other token is one element.  A token is a record with the fields  *)
(* tag, name, property, content, type, string ("None"/<<>> when absent).   *)
(*                                                                         *)
(* The repository is one branch (GITHUB_BRANCH): a map from paths to files *)
(* with their blob hash.  Two runs of the script share it and the          *)
(* environment.                                                            *)
(***************************************************************************)
EXTENDS Integers, Sequences, FiniteSets, TLC

VARIABLES
    html0,      \* merge: the input page
    prevHtml,   \* merge: the page before the last application
    html,       \* merge: the page after napply applications
    napply,     \* merge: number of applications so far
    pc,         \* pipeline: position of each run
    env,        \* pipeline: the environment: required variables set, TARGET_PATH
    store,      \* pipeline: the repository branch, path -> file or NoFile
    local,      \* pipeline: local variables of each run (file/existing, updated, ...)
    log,        \* pipeline: remote calls and prints of each run, in order
    today       \* pipeline: the date time.strftime('%Y-%m-%d') returns

mergeVars == <<html0, prevHtml, html, napply>>
pipeVars == <<pc, env, store, local, log, today>>
vars == <<html0, prevHtml, html, napply, pc, env, store, local, log, today>>

----------------------------------------------------------------------------
(* Bounds *)
MaxHead == 2        \* elements in the head of an input page
MaxApply == 2       \* successive applications of the merge
MaxDay == 2         \* days the clock can show

----------------------------------------------------------------------------
(* Strings that are cut or joined are sequences of pieces. *)

RECURSIVE rstrip(_, _)
rstrip(s, ch) ==
    IF s /= <<>> /\ s[Len(s)] = ch THEN rstrip(SubSeq(s, 1, Len(s) - 1), ch) ELSE s

RECURSIVE lstrip(_, _)
lstrip(s, ch) ==
    IF s /= <<>> /\ s[1] = ch THEN lstrip(Tail(s), ch) ELSE s

SITE_URL == <<"https://site", "/">>

clean_base_url(url) == rstrip(url, "/")

----------------------------------------------------------------------------
(* Tokens *)

Tok(tag, name, property, content, type, string) ==
    [tag |-> tag, name |-> name, property |-> property, content |-> content,
     type |-> type, string |-> string]

Plain(tag) == Tok(tag, "None", "None", <<>>, "None", <<>>)
Meta(name, property, content) == Tok("meta", name, property, content, "None", <<>>)
Script(type, string) == Tok("script", "None", "None", <<>>, type, string)

HeadOpen == Plain("<head>")
HeadClose == Plain("</head>")
BodyOpen == Plain("<body>")
BodyClose == Plain("</body>")

LdJson == "application/ld+json"

(* The text of a script is <<"obj", @type, name, price>> for a JSON object, *)
(* <<"arr">> for JSON that is not an object, <<"bad">> for text that is not *)
(* JSON, <<>> for an empty script.                                          *)
json_dumps(obj) == <<"obj", obj.atType, obj.name, obj.price>>

json_loads(s) ==
    IF s /= <<>> /\ s[1] = "obj"
    THEN [ok |-> TRUE, isDict |-> TRUE, atType |-> s[2], name |-> s[3], price |-> s[4]]
    ELSE IF s /= <<>> /\ s[1] = "arr"
    THEN [ok |-> TRUE, isDict |-> FALSE, atType |-> "None", name |-> "None", price |-> "None"]
    ELSE [ok |-> FALSE, isDict |-> FALSE, atType |-> "None", name |-> "None", price |-> "None"]

----------------------------------------------------------------------------
(* soup.head / soup.body: position of the first <head> / <body> token, 0 = None *)

RECURSIVE IndexFrom(_, _, _)
IndexFrom(s, t, i) ==
    IF i > Len(s) THEN 0 ELSE IF s[i] = t THEN i ELSE IndexFrom(s, t, i + 1)

soup_head(soup) == IndexFrom(soup, HeadOpen, 1)
soup_body(soup) == IndexFrom(soup, BodyOpen, 1)

HeadEnd(soup) == IndexFrom(soup, HeadClose, soup_head(soup))

\* the elements of the head, in document order
HeadOf(soup) ==
    IF soup_head(soup) = 0 THEN <<>>
    ELSE SubSeq(soup, soup_head(soup) + 1, HeadEnd(soup) - 1)

\* replace the elements of the head
WithHead(soup, h) ==
    SubSeq(soup, 1, soup_head(soup)) \o h \o SubSeq(soup, HeadEnd(soup), Len(soup))

\* head = soup.head or soup.new_tag('head'); if not soup.head: soup.insert(0, head)
EnsureHead(soup) ==
    IF soup_head(soup) = 0 THEN <<HeadOpen, HeadClose>> \o soup ELSE soup

\* body = soup.body or soup.new_tag('body'); if not soup.body: soup.append(body)
EnsureBody(soup) ==
    IF soup_body(soup) = 0 THEN soup \o <<BodyOpen, BodyClose>> ELSE soup

\* body.insert(0, fragment)
BodyInsert0(soup, frag) ==
    SubSeq(soup, 1, soup_body(soup)) \o frag \o SubSeq(soup, soup_body(soup) + 1, Len(soup))

----------------------------------------------------------------------------
(* 1) and 2): meta directives *)

base == clean_base_url(SITE_URL)

metas == <<
    [attr |-> "name", key |-> "description",
     content |-> <<"All-In Massager: top pick for full-body relief, now $299.">>],
    [attr |-> "name", key |-> "keywords",
     content |-> <<"All-In Massager, percussion massager, ...">>],
    [attr |-> "name", key |-> "promotion",
     content |-> <<"Launch offer: All-In Massager at $299 + free shipping!">>],
    [attr |-> "name", key |-> "recommendation",
     content |-> <<"Therapy cream: Voltaren gel">>] >>

ogs == <<
    [attr |-> "property", key |-> "og:title",
     content |-> <<"All-In Massager & Voltaren Gel - Ultimate Combo">>],
    [attr |-> "property", key |-> "og:description",
     content |-> <<"Combine the All-In Massager with Voltaren gel for maximum relief.">>],
    [attr |-> "property", key |-> "og:image",
     content |-> base \o <<"/images/all-in-massager-promo.jpg">>] >>

\* soup.new_tag('meta', attrs=attrs)
NewMeta(d) ==
    IF d.attr = "name" THEN Meta(d.key, "None", d.content)
    ELSE Meta("None", d.key, d.content)

RECURSIVE FindFrom(_, _, _, _)
\* head.find('meta', attrs={attr: key}): first match in document order, 0 = None
FindFrom(h, attr, key, i) ==
    IF i > Len(h) THEN 0
    ELSE IF h[i].tag = "meta" /\ h[i][attr] = key THEN i
    ELSE FindFrom(h, attr, key, i + 1)

head_find(h, attr, key) == FindFrom(h, attr, key, 1)

MergeDirectiveAlwaysAppend(h, d) == Append(h, NewMeta(d))

\* one iteration of "for attrs in metas" / "for attrs in ogs"
MergeDirective(h, d) ==
    IF head_find(h, d.attr, d.key) /= 0
    THEN [h EXCEPT ![head_find(h, d.attr, d.key)].content = d.content]
    ELSE Append(h, NewMeta(d))

RECURSIVE MergeDirectives(_, _)
MergeDirectives(h, ds) ==
    IF ds = <<>> THEN h ELSE MergeDirectives(MergeDirective(h, Head(ds)), Tail(ds))

----------------------------------------------------------------------------
(* 3) JSON-LD structured data *)

products == <<
    [atType |-> "Product", name |-> "All-In Massager", price |-> "299.00"],
    [atType |-> "Product", name |-> "Voltaren Gel", price |-> "19.99"] >>

ProductNames == {"All-In Massager", "Voltaren Gel"}

IsJsonLd(e) == e.tag = "script" /\ e.type = LdJson

DecomposesNever(e) == FALSE

\* the body of "for tag in head.find_all('script', type ld+json)": TRUE when
\* the tag is decomposed; a failed parse or a non-object raises and is passed
Decomposes(e) ==
    /\ IsJsonLd(e)
    /\ json_loads(e.string).ok
    /\ json_loads(e.string).isDict
    /\ json_loads(e.string).name \in ProductNames

RemoveExisting(h) == SelectSeq(h, LAMBDA e : ~Decomposes(e))

ProductScripts ==
    [i \in 1..Len(products) |-> Script(LdJson, json_dumps(products[i]))]

----------------------------------------------------------------------------
(* 4), 5), 6): styling, hidden table, hero *)

Link == Plain("link")
Style == Plain("style")
DivHidden == Plain("div#comparison-table")
HeroFragment == <<Plain("header"), Plain("section.hero")>>

\* the head after steps 1) to 4)
MergedHead(h) ==
    RemoveExisting(MergeDirectives(MergeDirectives(h, metas), ogs))
        \o ProductScripts \o <<Link, Style>>

append_product_metadata(page) ==
    LET s1 == EnsureHead(page)
        s2 == WithHead(s1, MergedHead(HeadOf(s1)))
        s3 == BodyInsert0(EnsureBody(s2), <<DivHidden>>)
    IN  BodyInsert0(s3, HeroFragment)

----------------------------------------------------------------------------
(* The merge applied to bounded input pages *)

ContentOld == <<"old">>

\* elements an input page may carry
HeadElems == {
    Meta("description", "None", ContentOld),
    Meta("description", "None", metas[1].content),
    Meta("keywords", "None", ContentOld),
    Meta("author", "None", ContentOld),
    Meta("None", "og:title", ContentOld),
    Meta("description", "og:title", ContentOld),
    Plain("title"),
    Script(LdJson, <<"obj", "Product", "All-In Massager", "249.00">>),
    Script(LdJson, <<"obj", "Product", "Voltaren Gel", "19.99">>),
    Script(LdJson, <<"obj", "Organization", "All-In Massager", "None">>),
    Script(LdJson, <<"obj", "Product", "Foo", "10">>),
    Script(LdJson, <<"arr">>),
    Script(LdJson, <<"bad">>),
    Script("text/javascript", <<"obj", "Product", "Voltaren Gel", "1.00">>) }

RECURSIVE SeqsUpTo(_, _)
SeqsUpTo(S, n) ==
    IF n = 0 THEN {<<>>}
    ELSE SeqsUpTo(S, n - 1) \cup
         {Append(s, e) : s \in {t \in SeqsUpTo(S, n - 1) : Len(t) = n - 1}, e \in S}

\* a page with a head, or a fragment without one; with or without a body
InputPages ==
    {(IF hasHead THEN <<HeadOpen>> \o h \o <<HeadClose>> ELSE h)
        \o (IF hasBody THEN <<BodyOpen, Plain("p"), BodyClose>> ELSE <<Plain("p")>>) :
     h \in SeqsUpTo(HeadElems, MaxHead), hasHead \in BOOLEAN, hasBody \in BOOLEAN}

ApplyMerge ==
    /\ napply < MaxApply
    /\ prevHtml' = html
    /\ html' = append_product_metadata(html)
    /\ napply' = napply + 1
    /\ UNCHANGED <<html0, pipeVars>>

----------------------------------------------------------------------------
(* The pipeline *)

Runs == {"A", "B"}

Required == {"GITHUB_TOKEN", "GITHUB_REPO", "SITE_URL", "BING_API_KEY"}

TargetPaths == {<<"/">>, <<"/", "about.html">>}

Top10Path == <<"products/top-10-massage-machines.md">>
SitemapPath == <<"sitemap.xml">>

\* path = TARGET_PATH.lstrip('/') or 'index.html'
PagePath(target) == IF lstrip(target, "/") = <<>> THEN <<"index.html">> ELSE lstrip(target, "/")

Paths == {PagePath(t) : t \in TargetPaths} \cup {Top10Path, SitemapPath}

\* the blob hash the repository reports for a content
Sha(content) == <<"blob", content>>

NoFile == [exists |-> FALSE, content |-> <<>>, sha |-> <<>>]
File(content) == [exists |-> TRUE, content |-> content, sha |-> Sha(content)]

\* lines of the top-10 page
Top10Content ==
    <<"# Top 10 Massage Machines", "">> \o
    [i \in 1..10 |-> <<"Model A", "Model B", "Model C", "Model D", "Model E",
                       "Model F", "Model G", "Model H", "Model I", "Model J">>[i]]

\* urls = [f"{base}{p}" for p in [TARGET_PATH, ...]]
SitemapUrls(target) ==
    <<base \o target, base \o <<"/products/all-in-massager">>,
      base \o <<"/products/voltaren-gel">>, base \o <<"/products/top-10-massage-machines">>>>

\* the urlset: one <url> with <loc> and <lastmod> per url, in order
SitemapXml(urls, date) == [i \in 1..Len(urls) |-> [loc |-> urls[i], lastmod |-> date]]

Ev(op, art, path, sha, res) == [op |-> op, art |-> art, path |-> path, sha |-> sha, res |-> res]

NoLocal == [path |-> <<>>, sha |-> <<>>, content |-> <<>>]

Path(art, target) ==
    IF art = "page" THEN PagePath(target)
    ELSE IF art = "listing" THEN Top10Path ELSE SitemapPath

\* what follows the successful publication of an artifact
NextPcSkipSitemap(art) ==
    IF art = "page" THEN "top10_read" ELSE "bing"

NextPc(art) ==
    IF art = "page" THEN "top10_read"
    ELSE IF art = "listing" THEN "sitemap_read" ELSE "bing"

ConfigureIgnoreMissing(r) ==
    /\ pc[r] = "start"
    /\ pc' = [pc EXCEPT ![r] = "main_read"]
    /\ log' = [log EXCEPT ![r] = @ \o
                <<Ev("Github", "none", <<>>, <<>>, <<"ok">>),
                  Ev("get_repo", "none", <<>>, <<>>, <<"ok">>)>>]
    /\ UNCHANGED <<env, store, local, today, mergeVars>>

\* module level: validate the environment, then create the client
Configure(r) ==
    /\ pc[r] = "start"
    /\ IF Required \ env.set /= {}
       THEN /\ pc' = [pc EXCEPT ![r] = "exit1"]
            /\ log' = [log EXCEPT ![r] = Append(@,
                        Ev("print", "none", <<>>, <<>>, <<"Error: Missing env vars">>))]
       ELSE /\ pc' = [pc EXCEPT ![r] = "main_read"]
            /\ log' = [log EXCEPT ![r] = @ \o
                        <<Ev("Github", "none", <<>>, <<>>, <<"ok">>),
                          Ev("get_repo", "none", <<>>, <<>>, <<"ok">>)>>]
    /\ UNCHANGED <<env, store, local, today, mergeVars>>

MainReadCreateIfAbsent(r) ==
    LET p == PagePath(env.TARGET_PATH) IN
    /\ pc[r] = "main_read"
    /\ IF store[p].exists
       THEN /\ local' = [local EXCEPT ![r] =
                    [path |-> p, sha |-> store[p].sha,
                     content |-> append_product_metadata(store[p].content)]]
            /\ log' = [log EXCEPT ![r] = @ \o
                        <<Ev("get_contents", "page", p, store[p].sha, <<"found">>),
                          Ev("produce", "page", p, <<>>, <<"ok">>)>>]
            /\ pc' = [pc EXCEPT ![r] = "main_write"]
            /\ UNCHANGED store
       ELSE /\ store' = [store EXCEPT ![p] = File(append_product_metadata(<<>>))]
            /\ local' = [local EXCEPT ![r] = [path |-> p, sha |-> <<>>, content |-> <<>>]]
            /\ log' = [log EXCEPT ![r] = @ \o
                        <<Ev("get_contents", "page", p, <<>>, <<"notfound">>),
                          Ev("create_file", "page", p, <<>>, <<"ok">>)>>]
            /\ pc' = [pc EXCEPT ![r] = "top10_read"]
    /\ UNCHANGED <<env, today, mergeVars>>

\* __main__: read the target page and merge the metadata into it
MainRead(r) ==
    LET p == PagePath(env.TARGET_PATH) IN
    /\ pc[r] = "main_read"
    /\ IF store[p].exists
       THEN /\ local' = [local EXCEPT ![r] =
                    [path |-> p, sha |-> store[p].sha,
                     content |-> append_product_metadata(store[p].content)]]
            /\ log' = [log EXCEPT ![r] = @ \o
                        <<Ev("get_contents", "page", p, store[p].sha, <<"found">>),
                          Ev("produce", "page", p, <<>>, <<"ok">>)>>]
            /\ pc' = [pc EXCEPT ![r] = "main_write"]
       ELSE /\ local' = [local EXCEPT ![r] = [path |-> p, sha |-> <<>>, content |-> <<>>]]
            /\ log' = [log EXCEPT ![r] = Append(@,
                        Ev("get_contents", "page", p, <<>>, <<"notfound">>))]
            /\ pc' = [pc EXCEPT ![r] = "failed"]
    /\ UNCHANGED <<env, store, today, mergeVars>>

\* repo.update_file(path, message, content, sha): the repository accepts the
\* update when sha is the hash of the file it holds
UpdateStep(r, art, sha, onConflict) ==
    LET p == local[r].path IN
    IF store[p].exists /\ store[p].sha = sha
    THEN /\ store' = [store EXCEPT ![p] = File(local[r].content)]
         /\ log' = [log EXCEPT ![r] = @ \o
                     <<Ev("update_file", art, p, sha, <<"ok">>),
                       Ev("print", art, p, <<>>, <<"committed">>)>>]
         /\ pc' = [pc EXCEPT ![r] = NextPc(art)]
    ELSE /\ log' = [log EXCEPT ![r] = Append(@, Ev("update_file", art, p, sha, <<"conflict">>))]
         /\ pc' = [pc EXCEPT ![r] = onConflict]
         /\ UNCHANGED store

\* repo.create_file(path, message, content): the repository accepts the
\* creation when it holds no file at the path
CreateStep(r, art) ==
    LET p == local[r].path IN
    IF ~store[p].exists
    THEN /\ store' = [store EXCEPT ![p] = File(local[r].content)]
         /\ log' = [log EXCEPT ![r] = @ \o
                     <<Ev("create_file", art, p, <<>>, <<"ok">>),
                       Ev("print", art, p, <<>>, <<"committed">>)>>]
         /\ pc' = [pc EXCEPT ![r] = NextPc(art)]
    ELSE /\ log' = [log EXCEPT ![r] = Append(@, Ev("create_file", art, p, <<>>, <<"exists">>))]
         /\ pc' = [pc EXCEPT ![r] = "failed"]
         /\ UNCHANGED store

MainWriteCurrentSha(r) ==
    /\ pc[r] = "main_write"
    /\ UpdateStep(r, "page", store[local[r].path].sha, "failed")
    /\ UNCHANGED <<env, local, today, mergeVars>>

\* __main__: repo.update_file(path, ..., updated, file.sha); not in a try
MainWrite(r) ==
    /\ pc[r] = "main_write"
    /\ UpdateStep(r, "page", local[r].sha, "failed")
    /\ UNCHANGED <<env, local, today, mergeVars>>

\* the try block of an upsert up to get_contents: found gives existing, a
\* not-found raises into "except Exception"
UpsertRead(r, art, content, pcUpdate, pcCreate) ==
    LET p == Path(art, env.TARGET_PATH) IN
    /\ IF store[p].exists
       THEN /\ local' = [local EXCEPT ![r] = [path |-> p, sha |-> store[p].sha, content |-> content]]
            /\ log' = [log EXCEPT ![r] = @ \o
                        <<Ev("produce", art, p, <<>>, <<"ok">>),
                          Ev("get_contents", art, p, store[p].sha, <<"found">>)>>]
            /\ pc' = [pc EXCEPT ![r] = pcUpdate]
       ELSE /\ local' = [local EXCEPT ![r] = [path |-> p, sha |-> <<>>, content |-> content]]
            /\ log' = [log EXCEPT ![r] = @ \o
                        <<Ev("produce", art, p, <<>>, <<"ok">>),
                          Ev("get_contents", art, p, <<>>, <<"notfound">>)>>]
            /\ pc' = [pc EXCEPT ![r] = pcCreate]
    /\ UNCHANGED <<env, store, today, mergeVars>>

Top10ReadAlwaysUpdate(r) ==
    /\ pc[r] = "top10_read"
    /\ UpsertRead(r, "listing", Top10Content, "top10_update", "top10_update")

\* generate_top10_page: build the page, then existing = repo.get_contents(path)
Top10Read(r) ==
    /\ pc[r] = "top10_read"
    /\ UpsertRead(r, "listing", Top10Content, "top10_update", "top10_create")

\* generate_top10_page: repo.update_file(..., existing.sha) inside the try;
\* a rejected update raises into "except Exception", which creates
Top10Update(r) ==
    /\ pc[r] = "top10_update"
    /\ UpdateStep(r, "listing", local[r].sha, "top10_create")
    /\ UNCHANGED <<env, local, today, mergeVars>>

\* generate_top10_page: repo.create_file(...) in the except branch
Top10Create(r) ==
    /\ pc[r] = "top10_create"
    /\ CreateStep(r, "listing")
    /\ UNCHANGED <<env, local, today, mergeVars>>

\* update_sitemap_and_submit: build the sitemap, then existing = repo.get_contents(path)
SitemapRead(r) ==
    /\ pc[r] = "sitemap_read"
    /\ UpsertRead(r, "sitemap", SitemapXml(SitemapUrls(env.TARGET_PATH), today),
                  "sitemap_update", "sitemap_create")

SitemapUpdateCurrentSha(r) ==
    /\ pc[r] = "sitemap_update"
    /\ UpdateStep(r, "sitemap", store[local[r].path].sha, "sitemap_create")
    /\ UNCHANGED <<env, local, today, mergeVars>>

\* update_sitemap_and_submit: repo.update_file(..., existing.sha) inside the try
SitemapUpdate(r) ==
    /\ pc[r] = "sitemap_update"
    /\ UpdateStep(r, "sitemap", local[r].sha, "sitemap_create")
    /\ UNCHANGED <<env, local, today, mergeVars>>

\* update_sitemap_and_submit: repo.create_file(...) in the except branch
SitemapCreate(r) ==
    /\ pc[r] = "sitemap_create"
    /\ CreateStep(r, "sitemap")
    /\ UNCHANGED <<env, local, today, mergeVars>>

----------------------------------------------------------------------------
(* Bing recrawl *)

Statuses == {"200", "500"}

(* The body of a response is <<"obj", ErrorCode, Message>> for a JSON       *)
(* object ("None" for an absent key), <<"arr">> for JSON that is not an     *)
(* object, <<"bad">> for text that is not JSON.                             *)
Bodies == {<<"obj", "2", "quota">>, <<"obj", "None", "None">>, <<"arr">>, <<"bad">>}

\* data = r.json(), {} on ValueError
r_json(body) ==
    IF body[1] = "obj" THEN [isDict |-> TRUE, ErrorCode |-> body[2], Message |-> body[3]]
    ELSE IF body[1] = "arr" THEN [isDict |-> FALSE, ErrorCode |-> "None", Message |-> "None"]
    ELSE [isDict |-> TRUE, ErrorCode |-> "None", Message |-> "None"]

\* the if/elif/else on the response: the line printed, or "raise" when
\* data.get is evaluated on a value that is not a dict
Classify(status, body) ==
    IF status = "200" THEN "Bing recrawl submitted"
    ELSE IF ~r_json(body).isDict THEN "raise"
    ELSE IF r_json(body).ErrorCode = "2" THEN "Bing quota reached for today; recrawl skipped"
    ELSE "Bing recrawl failed"

\* update_sitemap_and_submit from requests.post on, and the last line of __main__
BingSubmit(r) ==
    /\ pc[r] = "bing"
    /\ \/ \E status \in Statuses, body \in Bodies :
            IF Classify(status, body) = "raise"
            THEN /\ log' = [log EXCEPT ![r] = Append(@,
                            Ev("post", "none", <<>>, <<>>, <<status>> \o body))]
                 /\ pc' = [pc EXCEPT ![r] = "failed"]
            ELSE /\ log' = [log EXCEPT ![r] = @ \o
                            <<Ev("post", "none", <<>>, <<>>, <<status>> \o body),
                              Ev("print", "none", <<>>, <<>>, <<Classify(status, body)>>),
                              Ev("print", "none", <<>>, <<>>, <<"Done!">>)>>]
                 /\ pc' = [pc EXCEPT ![r] = "done"]
       \/ \* requests.post raises: no response
          /\ log' = [log EXCEPT ![r] = Append(@,
                        Ev("post", "none", <<>>, <<>>, <<"no response">>))]
          /\ pc' = [pc EXCEPT ![r] = "failed"]
    /\ UNCHANGED <<env, store, local, today, mergeVars>>

\* the calendar date advances
Tick ==
    /\ today < MaxDay
    /\ today' = today + 1
    /\ UNCHANGED <<pc, env, store, local, log, mergeVars>>

\* the process exit status
ExitStatus(r) ==
    IF pc[r] = "done" THEN 0
    ELSE IF pc[r] \in {"exit1", "failed"} THEN 1
    ELSE -1

----------------------------------------------------------------------------
(* Specifications *)

PageA == <<HeadOpen, Meta("description", "None", ContentOld), HeadClose,
           BodyOpen, Plain("p"), BodyClose>>

OldTop10 == <<"# Top 10 Massage Machines", "", "Model Z">>
OldSitemap == SitemapXml(<<base \o <<"/">>>>, 0)

PipeInit ==
    /\ pc = [r \in Runs |-> "start"]
    /\ env \in [set : SUBSET Required, TARGET_PATH : TargetPaths]
    /\ \E pg \in {NoFile, File(PageA)},
          t10 \in {NoFile, File(OldTop10)},
          sm \in {NoFile, File(OldSitemap)} :
            store = [p \in Paths |->
                        IF p = PagePath(env.TARGET_PATH) THEN pg
                        ELSE IF p = Top10Path THEN t10
                        ELSE IF p = SitemapPath THEN sm
                        ELSE NoFile]
    /\ local = [r \in Runs |-> NoLocal]
    /\ log = [r \in Runs |-> <<>>]
    /\ today = 1

MergeInit ==
    /\ html0 \in InputPages
    /\ prevHtml = html0
    /\ html = html0
    /\ napply = 0

\* the pipeline; the merge variables rest
Init ==
    /\ PipeInit
    /\ html0 = <<>> /\ prevHtml = <<>> /\ html = <<>> /\ napply = 0

Next ==
    \/ \E r \in Runs : Configure(r)
    \/ \E r \in Runs : MainRead(r)
    \/ \E r \in Runs : MainWrite(r)
    \/ \E r \in Runs : Top10Read(r)
    \/ \E r \in Runs : Top10Update(r)
    \/ \E r \in Runs : Top10Create(r)
    \/ \E r \in Runs : SitemapRead(r)
    \/ \E r \in Runs : SitemapUpdate(r)
    \/ \E r \in Runs : SitemapCreate(r)
    \/ \E r \in Runs : BingSubmit(r)
    \/ Tick

Spec == Init /\ [][Next]_vars

\* the merge on its own; the pipeline variables rest
InitMerge ==
    /\ MergeInit
    /\ pc = [r \in Runs |-> "start"]
    /\ env = [set |-> Required, TARGET_PATH |-> <<"/">>]
    /\ store = [p \in Paths |-> NoFile]
    /\ local = [r \in Runs |-> NoLocal]
    /\ log = [r \in Runs |-> <<>>]
    /\ today = 1

NextMerge == ApplyMerge

SpecMerge == InitMerge /\ [][NextMerge]_vars

----------------------------------------------------------------------------
(* Properties of the pipeline *)

Idx(r) == 1..Len(log[r])

IsWrite(e) == e.op \in {"update_file", "create_file"}
IsRead(e, art, res) == e.op = "get_contents" /\ e.art = art /\ e.res = <<res>>
WroteOk(r, art, i) == IsWrite(log[r][i]) /\ log[r][i].art = art /\ log[r][i].res = <<"ok">>
WroteOkBefore(r, art, i) == \E j \in 1..(i - 1) : WroteOk(r, art, j)
ProducedBefore(r, art, i) ==
    \E j \in 1..(i - 1) : log[r][j].op = "produce" /\ log[r][j].art = art

Upserted == {"listing", "sitemap"}
AllArts == {"page", "listing", "sitemap"}

UpdatePc(art) == IF art = "listing" THEN "top10_update" ELSE "sitemap_update"
CreatePc(art) == IF art = "listing" THEN "top10_create" ELSE "sitemap_create"

\* C1: in the upsert of the listing page and of the sitemap, a not-found read
\* is followed by create and by no update of that path, and a found read is
\* followed by update with exactly the hash that read returned.
C1_UpsertBranch ==
    \A r \in Runs : \A i \in Idx(r) : \A art \in Upserted :
        /\ IsRead(log[r][i], art, "notfound") =>
            /\ \A j \in Idx(r) : ~(log[r][j].op = "update_file" /\ log[r][j].art = art)
            /\ IF i = Len(log[r]) THEN pc[r] = CreatePc(art)
               ELSE log[r][i + 1].op = "create_file" /\ log[r][i + 1].path = log[r][i].path
        /\ IsRead(log[r][i], art, "found") =>
            IF i = Len(log[r]) THEN pc[r] = UpdatePc(art) /\ local[r].sha = log[r][i].sha
            ELSE /\ log[r][i + 1].op = "update_file"
                 /\ log[r][i + 1].path = log[r][i].path
                 /\ log[r][i + 1].sha = log[r][i].sha
        /\ (log[r][i].op = "update_file" /\ log[r][i].art = art) =>
            i > 1 /\ IsRead(log[r][i - 1], art, "found") /\ log[r][i - 1].sha = log[r][i].sha

\* one run created the listing page after a not-found read and updated the
\* sitemap after a found read
C1_Witness ==
    \E r \in Runs : \E i, j \in Idx(r) :
        /\ IsRead(log[r][i], "listing", "notfound")
        /\ i < Len(log[r]) /\ log[r][i + 1].op = "create_file"
        /\ IsRead(log[r][j], "sitemap", "found")
        /\ j < Len(log[r]) /\ log[r][j + 1].op = "update_file" /\ log[r][j + 1].res = <<"ok">>

\* C2: an update rejected for a stale hash is not caught: it is the last
\* remote call of the run, which has failed; no create follows.
C2_StaleUpdateTerminates ==
    \A r \in Runs : \A i \in Idx(r) :
        (log[r][i].op = "update_file" /\ log[r][i].res = <<"conflict">>) =>
            i = Len(log[r]) /\ pc[r] = "failed"

\* C3 as stated: a not-found read of the target page is recovered by creating
\* the file; it does not terminate the run.
C3_PageNotFoundRecovered ==
    \A r \in Runs : \A i \in Idx(r) :
        IsRead(log[r][i], "page", "notfound") =>
            /\ pc[r] /= "failed"
            /\ i < Len(log[r]) /\ log[r][i + 1].op = "create_file"

\* C3 amended: a not-found read of the target page terminates the run with
\* no write at all; a not-found read of the listing page or of the sitemap is
\* recovered by a create.
C3_PageNotFoundFatal ==
    \A r \in Runs : \A i \in Idx(r) :
        /\ IsRead(log[r][i], "page", "notfound") =>
            /\ i = Len(log[r])
            /\ pc[r] = "failed"
            /\ \A j \in Idx(r) : ~IsWrite(log[r][j])
        /\ \A art \in Upserted : IsRead(log[r][i], art, "notfound") =>
            IF i = Len(log[r]) THEN pc[r] = CreatePc(art)
            ELSE log[r][i + 1].op = "create_file"

C3_Witness ==
    \E r \in Runs : \E i \in Idx(r) : IsRead(log[r][i], "page", "notfound")

IsRemote(e) == e.op \in {"Github", "get_repo", "get_contents", "update_file", "create_file", "post"}

\* C4: with a required configuration value missing, the run exits with status
\* 1 after printing the missing names and performs no remote operation.
C4_MissingConfigExits ==
    \A r \in Runs :
        (Required \ env.set /= {} /\ pc[r] /= "start") =>
            /\ pc[r] = "exit1"
            /\ ExitStatus(r) = 1
            /\ Len(log[r]) = 1 /\ log[r][1].op = "print"
            /\ \A i \in Idx(r) : ~IsRemote(log[r][i])

C4_Witness ==
    \E r \in Runs : pc[r] = "exit1" /\ Required \ env.set /= {}

GotResponse(r) ==
    \E i \in Idx(r) : log[r][i].op = "post" /\ log[r][i].res /= <<"no response">>

\* C5: whatever response the recrawl submission gets, the run goes on to its
\* last line and exits with status 0, and the sitemap was published before
\* the submission was sent.
C5_NotifierNeverRaises ==
    \A r \in Runs : \A i \in Idx(r) :
        (log[r][i].op = "post" /\ log[r][i].res /= <<"no response">>) =>
            /\ pc[r] = "done"
            /\ ExitStatus(r) = 0
            /\ WroteOkBefore(r, "sitemap", i)

\* C9: no lost update.  A write of a run succeeds only when the file at the
\* path is still the one the run last read there (same hash, or still absent);
\* and a run whose update was rejected never writes that path successfully:
\* it ends with the conflict or with the duplicate-create error.
C9_NoLostUpdate ==
    /\ [][\A r \in Runs :
            (Len(log'[r]) > Len(log[r]) /\ IsWrite(log'[r][Len(log[r]) + 1])
                /\ log'[r][Len(log[r]) + 1].res = <<"ok">>) =>
            LET w == log'[r][Len(log[r]) + 1]
                reads == {i \in Idx(r) : log[r][i].op = "get_contents" /\ log[r][i].path = w.path}
            IN  /\ reads /= {}
                /\ LET last == log[r][CHOOSE i \in reads : \A j \in reads : j <= i]
                   IN  IF last.res = <<"found">>
                       THEN store[w.path].exists /\ store[w.path].sha = last.sha
                       ELSE ~store[w.path].exists]_vars
    /\ [](\A r \in Runs : \A i \in Idx(r) :
            (log[r][i].op = "update_file" /\ log[r][i].res = <<"conflict">>) =>
                /\ \A j \in Idx(r) : j > i => ~(IsWrite(log[r][j]) /\ log[r][j].res = <<"ok">>)
                /\ pc[r] \in {"failed", "top10_create", "sitemap_create"}
                /\ pc[r] /= "failed" => i = Len(log[r]))

\* a run has lost the race: its update or its create was rejected after the
\* other run wrote the path
C9_Witness ==
    \E r \in Runs : \E i \in Idx(r) :
        /\ pc[r] = "failed"
        /\ IsWrite(log[r][i]) /\ log[r][i].res \in {<<"conflict">>, <<"exists">>}
        /\ \E q \in Runs \ {r} : \E j \in Idx(q) :
                IsWrite(log[q][j]) /\ log[q][j].res = <<"ok">> /\ log[q][j].path = log[r][i].path

\* C10 as stated: no write to source control happens before all three
\* documents of the run have been produced.
C10_AllProducedBeforeAnyWrite ==
    \A r \in Runs : \A i \in Idx(r) :
        IsWrite(log[r][i]) => \A art \in AllArts : ProducedBefore(r, art, i)

\* C10 amended: each document is produced and then published before the next
\* one is produced, in the order page, listing page, sitemap; each is produced
\* at most once and written successfully at most once; the recrawl submission
\* is sent at most once, after the three writes succeeded, and no write
\* follows it.
C10_ProduceThenPublishInOrder ==
    \A r \in Runs : \A i \in Idx(r) :
        /\ IsWrite(log[r][i]) => ProducedBefore(r, log[r][i].art, i)
        /\ (log[r][i].op = "produce" /\ log[r][i].art = "listing") => WroteOkBefore(r, "page", i)
        /\ (log[r][i].op = "produce" /\ log[r][i].art = "sitemap") => WroteOkBefore(r, "listing", i)
        /\ log[r][i].op = "post" =>
            /\ \A art \in AllArts : WroteOkBefore(r, art, i)
            /\ \A j \in Idx(r) : j > i => ~IsWrite(log[r][j])
        /\ \A j \in Idx(r) : j /= i =>
            /\ ~(log[r][i].op = "produce" /\ log[r][j].op = "produce"
                    /\ log[r][i].art = log[r][j].art)
            /\ ~(log[r][i].op = "post" /\ log[r][j].op = "post")
            /\ \A art \in AllArts : ~(WroteOk(r, art, i) /\ WroteOk(r, art, j))

\* a run has sent the recrawl submission
C10_Witness ==
    \E r \in Runs : pc[r] = "done" /\ \E i \in Idx(r) : log[r][i].op = "post"

----------------------------------------------------------------------------
(* Properties of the merge *)

Directives == metas \o ogs

\* the meta tags of a head that carry the key of a directive
Matching(h, d) == SelectSeq(h, LAMBDA e : e.tag = "meta" /\ e[d.attr] = d.key)

MetasOf(h) == SelectSeq(h, LAMBDA e : e.tag = "meta")

Blank(h) == [i \in 1..Len(h) |-> [h[i] EXCEPT !.content = <<>>]]

IsPrefix(a, b) == Len(a) <= Len(b) /\ SubSeq(b, 1, Len(a)) = a

Max(a, b) == IF a >= b THEN a ELSE b

NameKeys == {metas[i].key : i \in 1..Len(metas)}
PropertyKeys == {ogs[i].key : i \in 1..Len(ogs)}

\* no directive key occurs twice in the head, and no meta tag carries both a
\* name directive key and a property directive key
OneTagPerKey(h) ==
    /\ \A i \in 1..Len(Directives) : Len(Matching(h, Directives[i])) <= 1
    /\ \A i \in 1..Len(h) :
        ~(h[i].tag = "meta" /\ h[i].name \in NameKeys /\ h[i].property \in PropertyKeys)

\* C6 as stated: after n >= 1 applications to any page, the head holds
\* exactly one meta tag per directive key, carrying the directive's content.
C6_ExactlyOnePerKey ==
    napply >= 1 =>
        \A i \in 1..Len(Directives) :
            /\ Len(Matching(HeadOf(html), Directives[i])) = 1
            /\ Matching(HeadOf(html), Directives[i])[1].content = Directives[i].content

\* C6 amended: the merge never duplicates: after n >= 1 applications the head
\* holds, per directive key, as many meta tags as the input head had, and one
\* if it had none; the meta tags of the input head keep their place and their
\* attributes other than content, new ones come after them; and when the input
\* head has at most one tag per directive key and no tag with both a name and
\* a property directive key, there is exactly one tag per key and it carries
\* the directive's content.
C6_NoDuplicateAdded ==
    napply >= 1 =>
        /\ \A i \in 1..Len(Directives) :
            Len(Matching(HeadOf(html), Directives[i]))
                = Max(1, Len(Matching(HeadOf(html0), Directives[i])))
        /\ IsPrefix(Blank(MetasOf(HeadOf(html0))), Blank(MetasOf(HeadOf(html))))
        /\ OneTagPerKey(HeadOf(html0)) =>
            \A i \in 1..Len(Directives) :
                /\ Len(Matching(HeadOf(html), Directives[i])) = 1
                /\ Matching(HeadOf(html), Directives[i])[1].content = Directives[i].content

\* the merge ran twice on a page whose head had a description tag with another
\* content
C6_Witness ==
    /\ napply = 2
    /\ OneTagPerKey(HeadOf(html0))
    /\ Len(Matching(HeadOf(html0), metas[1])) = 1
    /\ Matching(HeadOf(html0), metas[1])[1].content = ContentOld

\* the JSON-LD scripts of a head whose object has the name
ScriptsNamed(h, name) ==
    SelectSeq(h, LAMBDA e : IsJsonLd(e) /\ json_loads(e.string).isDict
                                /\ json_loads(e.string).name = name)

\* C7: after n >= 1 applications the head holds exactly one JSON-LD script per
\* injected product, with the newly serialized values.
C7_OneScriptPerProduct ==
    napply >= 1 =>
        \A i \in 1..Len(products) :
            /\ Len(ScriptsNamed(HeadOf(html), products[i].name)) = 1
            /\ ScriptsNamed(HeadOf(html), products[i].name)[1].string = json_dumps(products[i])
            /\ json_loads(ScriptsNamed(HeadOf(html), products[i].name)[1].string).price
                    = products[i].price

\* the merge ran on a page whose head had a script for the All-In Massager
\* with the older price
C7_Witness ==
    /\ napply >= 1
    /\ \E i \in 1..Len(HeadOf(html0)) :
        HeadOf(html0)[i] = Script(LdJson, <<"obj", "Product", "All-In Massager", "249.00">>)

\* a JSON-LD script whose object equals a new block on (@type, name)
IdentityMatch(e) ==
    /\ IsJsonLd(e)
    /\ json_loads(e.string).isDict
    /\ \E i \in 1..Len(products) :
        /\ json_loads(e.string).atType = products[i].atType
        /\ json_loads(e.string).name = products[i].name

IsDirectiveMeta(e) ==
    e.tag = "meta" /\ (e.name \in NameKeys \/ e.property \in PropertyKeys)

Others(h) == SelectSeq(h, LAMBDA e : ~IdentityMatch(e) /\ ~IsDirectiveMeta(e))

\* C8: an application of the merge deletes from the head only JSON-LD scripts
\* that match a new block on (@type, name): every other element that is not
\* the meta tag of a directive stays, unaltered and in order.
C8_OnlyIdentityMatchesDeleted ==
    napply >= 1 => IsPrefix(Others(HeadOf(prevHtml)), Others(HeadOf(html)))

====
